---------------------------- MODULE Spec2Model ----------------------------
(***************************************************************************)
(* FMC SNORT utilisation / ThousandEyes network performance dashboard.     *)
(*                                                                         *)
(* The module models, from the Python sources under src/flask_app:         *)
(*   - app.py          the aggregation pipeline (index and its helpers),   *)
(*                     the memoized lookups and the normalisation and      *)
(*                     summary functions;                                  *)
(*   - fmc.py          the device/health client (FirePower);               *)
(*   - thousandeyes.py the network-test client (ThousandEyes).             *)
(*                                                                         *)
(* Python values are represented as follows.                               *)
(*   None                : the record None                                 *)
(*   a value that may be None : Some(x) or None                            *)
(*   str                 : a TLA+ string when only its identity matters,   *)
(*                         a sequence of one-character strings when the    *)
(*                         code looks inside it (time labels, the decimal  *)
(*                         strings handed to float())                      *)
(*   dict (insertion ordered) whose keys the code computes : a sequence of *)
(*                         <<key, value>> pairs (see DictSet)              *)
(*   dict keyed by device id : a TLA+ function                             *)
(*   a raised exception  : an outcome "raise" that the caller propagates   *)
(*   sys.exit(-1)        : an outcome "exit"                               *)
(***************************************************************************)
EXTENDS Integers, Sequences, FiniteSets, TLC

VARIABLES
    cv_pc,      \* normalisation run: "start", "converted", "done", "raised"
    cv_raw,     \* its input, the raw metrics: device id -> series
    cv_out,     \* convert_snort_metric_data's result
    cv_avg,     \* calculate_snort_avg's result
    cl_pc,      \* client run: "idle" before the operation is called, then
                \* "returned", "raised" or "exited" (sys.exit was called)
    cl_call,    \* client run: the operation called, with what the platform
                \* answered to its requests
    cl_ret,     \* client run: what the operation did and returned
    fmc_token,  \* FirePower: how many access tokens it has been given
    test_name_to_id,    \* ThousandEyes: the index built at construction
    TIME_PERIOD_SECONDS,\* config: the rolling window, fixed at start
    pc,         \* index: where the page request in progress stands; "idle",
                \* "health", "health24", "te", "merge", "render", and how
                \* the last request ended: "rendered", "raised" (an exception
                \* left the pipeline), "raised_geo" (the time-and-location
                \* lookup raised), "exited" (sys.exit)
    served,     \* number of page requests that have ended
    now,        \* the clock, in seconds
    cache,      \* the flask-caching store behind cache.memoize
    memo,       \* history: the last memoized call and how it was answered
    log,        \* history: the upstream requests of the request in progress
    calls,      \* history: the memoized calls of the request in progress
    rounds,     \* history: the rounds of the last get_te_test_results loop
    fetched,    \* history: the device list get_ftd_devices returned
    ix_devices, \* index's locals: devices,
    ix_snort_cpu_metrics,       \* snort_cpu_metrics,
    ix_snort_average,           \* snort_average,
    ix_snort_max_24h,           \* snort_max_24h,
    ix_raw_te,                  \* (raw_te_results, raw_te_test_details),
    ix_te_results,              \* te_results,
    ix_te_latency_average,      \* te_latency_average
    page,       \* the devices handed to render_template
    parked      \* concurrent run: the other page request, not running now

cv_vars == <<cv_pc, cv_raw, cv_out, cv_avg>>

cl_vars == <<cl_pc, cl_call, cl_ret>>

ix_locals ==
    <<ix_devices, ix_snort_cpu_metrics, ix_snort_average, ix_snort_max_24h, ix_raw_te,
      ix_te_results, ix_te_latency_average>>

ix_vars ==
    <<test_name_to_id, TIME_PERIOD_SECONDS, pc, served, now, cache, memo, log, calls,
      rounds, fetched, ix_locals, page>>

th_vars == <<parked>>

vars == <<cv_vars, cl_vars, fmc_token, ix_vars, th_vars>>

None == [k |-> "None"]

Some(x) == [k |-> "val", v |-> x]

IsNone(x) == x.k = "None"

(***************************************************************************)
(* Bounds of the checked instances.                                        *)
(***************************************************************************)
\* longest raw series fed to the normalisation
MaxLen == 2

\* longest chain of network-metrics pages
MaxPages == 3

\* longest device list the platform returns
MaxDevices == 2

\* page requests of a run that watches the cache
MaxRequests == 3

\* last instant of a run that watches the cache
MaxClock == 4000

(***************************************************************************)
(* Generic sequence helpers.                                               *)
(***************************************************************************)
RECURSIVE SeqsUpTo(_, _)
SeqsUpTo(S, n) ==
    IF n = 0 THEN {<<>>}
    ELSE LET shorter == SeqsUpTo(S, n - 1)
         IN  shorter \cup {Append(s, x) : s \in {t \in shorter : Len(t) = n - 1}, x \in S}

(***************************************************************************)
(* Time labels: datetime.utcfromtimestamp(t).strftime("%H:%M").            *)
(***************************************************************************)
DigitChars == <<"0", "1", "2", "3", "4", "5", "6", "7", "8", "9">>

\* "%02d" of a number below 100
TwoDigits(n) == <<DigitChars[(n \div 10) + 1], DigitChars[(n % 10) + 1]>>

\* faulty variant: the label of the local time of a zone ten hours behind UTC
\* (fromtimestamp in place of utcfromtimestamp)
UtcLabelLocal(t) ==
    TwoDigits(((t + 50400) % 86400) \div 3600) \o <<":">> \o TwoDigits((t % 3600) \div 60)

\* the "HH:MM" label of a Unix timestamp, in UTC
UtcLabel(t) ==
    TwoDigits((t % 86400) \div 3600) \o <<":">> \o TwoDigits((t % 3600) \div 60)

(***************************************************************************)
(* Raw samples.  A well-formed sample is the pair [timestamp, value]; the  *)
(* value is the string the platform sent.  kind "badts" is a sample whose  *)
(* first element utcfromtimestamp rejects (not a number, out of range),    *)
(* kind "short" a sample with no second element: both make the loop body   *)
(* raise before the assignment.                                            *)
(***************************************************************************)
Pair(t, v) == [kind |-> "pair", ts |-> t, val |-> v]

BadTs(v) == [kind |-> "badts", ts |-> 0, val |-> v]

Short(t) == [kind |-> "short", ts |-> t, val |-> <<>>]

\* whether the body of the loop over one sample completes (app.py:224-229)
SampleConverts(data) == data.kind = "pair"

(***************************************************************************)
(* Python dict with computed keys: insertion ordered, a key at most once.  *)
(* d[k] = v replaces the value of an existing key in place and appends a   *)
(* new key at the end.                                                     *)
(***************************************************************************)
DictKeys(d) == {d[i][1] : i \in 1..Len(d)}

DictHas(d, key) == key \in DictKeys(d)

DictGet(d, key) == d[CHOOSE i \in 1..Len(d) : d[i][1] = key][2]

\* faulty variant: an existing key keeps its first value
DictSetFirstWins(d, key, v) ==
    IF DictHas(d, key) THEN d ELSE Append(d, <<key, v>>)

DictSet(d, key, v) ==
    IF DictHas(d, key)
    THEN [i \in 1..Len(d) |-> IF d[i][1] = key THEN <<key, v>> ELSE d[i]]
    ELSE Append(d, <<key, v>>)

(***************************************************************************)
(* convert_snort_metric_data (app.py:212-234).                             *)
(***************************************************************************)
\* the inner loop over one device's series, samples taken in list order
RECURSIVE ConvertSeries(_, _)
ConvertSeries(series, acc) ==
    IF series = <<>> THEN acc
    ELSE LET data == Head(series)
         IN  ConvertSeries(Tail(series),
                           IF SampleConverts(data)
                           THEN DictSet(acc, UtcLabel(data.ts), data.val)
                           ELSE acc)

convert_snort_metric_data(raw_snort_cpu_metrics) ==
    [device \in DOMAIN raw_snort_cpu_metrics |->
        ConvertSeries(raw_snort_cpu_metrics[device], <<>>)]

(***************************************************************************)
(* float(value) on the strings the platform sends.  The model covers the   *)
(* plain decimal form digits[.digits]; every other string of the checked   *)
(* instances is one float() rejects with ValueError.  The result is the    *)
(* exact rational num/den, den a power of ten.                             *)
(***************************************************************************)
IsDigit(c) == \E i \in 1..10 : DigitChars[i] = c

DigitVal(c) == (CHOOSE i \in 1..10 : DigitChars[i] = c) - 1

RECURSIVE DigitsVal(_, _)
DigitsVal(cs, acc) ==
    IF cs = <<>> THEN acc ELSE DigitsVal(Tail(cs), 10 * acc + DigitVal(Head(cs)))

RECURSIVE Pow10(_)
Pow10(n) == IF n = 0 THEN 1 ELSE 10 * Pow10(n - 1)

DotAt(cs) == {i \in 1..Len(cs) : cs[i] = "."}

IsFloatString(cs) ==
    /\ Len(cs) > 0
    /\ \A i \in 1..Len(cs) : IsDigit(cs[i]) \/ cs[i] = "."
    /\ Cardinality(DotAt(cs)) <= 1
    /\ \E i \in 1..Len(cs) : IsDigit(cs[i])

FloatOf(cs) ==
    IF DotAt(cs) = {}
    THEN [num |-> DigitsVal(cs, 0), den |-> 1]
    ELSE LET p    == CHOOSE i \in DotAt(cs) : TRUE
             int  == SubSeq(cs, 1, p - 1)
             frac == SubSeq(cs, p + 1, Len(cs))
         IN  [num |-> DigitsVal(int, 0) * Pow10(Len(frac)) + DigitsVal(frac, 0),
              den |-> Pow10(Len(frac))]

RatAdd(a, b) == [num |-> a.num * b.den + b.num * a.den, den |-> a.den * b.den]

RatLess(a, b) == a.num * b.den < b.num * a.den

RECURSIVE RatSum(_)
RatSum(s) == IF s = <<>> THEN [num |-> 0, den |-> 1] ELSE RatAdd(Head(s), RatSum(Tail(s)))

RECURSIVE RatMax(_)
RatMax(s) ==
    IF Len(s) = 1 THEN s[1]
    ELSE LET m == RatMax(Tail(s)) IN IF RatLess(s[1], m) THEN m ELSE s[1]

(***************************************************************************)
(* round(x, 1), in tenths.  Python rounds the binary double nearest to x:  *)
(* away from an exact decimal tie the result is the nearest tenth; at an   *)
(* exact decimal tie (x.x5) the double may lie on either side, so both     *)
(* neighbours are possible results.                                        *)
(***************************************************************************)
Round1(x) ==
    LET n == 10 * x.num
        q == n \div x.den
        r == n % x.den
    IN  IF 2 * r < x.den THEN {q}
        ELSE IF 2 * r > x.den THEN {q + 1}
        ELSE {q, q + 1}

(***************************************************************************)
(* calculate_snort_avg (app.py:264-281) and calculate_snort_max            *)
(* (app.py:284-301).  float() is applied to every value of a device's      *)
(* normalised series outside any try block: one value float() rejects      *)
(* makes the whole function raise.                                         *)
(***************************************************************************)
AllFloat(metrics) ==
    \A device \in DOMAIN metrics :
        \A i \in 1..Len(metrics[device]) : IsFloatString(metrics[device][i][2])

cpu_values(series) == [i \in 1..Len(series) |-> FloatOf(series[i][2])]

\* sum(cpu_values) / len(cpu_values) if len(cpu_values) > 0 else 0
Average(values) ==
    IF Len(values) > 0
    THEN LET s == RatSum(values) IN [num |-> s.num, den |-> s.den * Len(values)]
    ELSE [num |-> 0, den |-> 1]

\* max(cpu_values) if len(cpu_values) > 0 else 0
Maximum(values) ==
    IF Len(values) > 0 THEN RatMax(values) ELSE [num |-> 0, den |-> 1]

\* faulty variant: a device whose result is 0 is left out ("if average:")
PerDeviceTruthy(choices) ==
    LET kept == {device \in DOMAIN choices : choices[device] # {0}}
    IN  {f \in [kept -> UNION {choices[device] : device \in kept}] :
            \A device \in kept : f[device] \in choices[device]}

\* the functions that pick one of choices[device] for every device
PerDevice(choices) ==
    {f \in [DOMAIN choices -> UNION {choices[device] : device \in DOMAIN choices}] :
        \A device \in DOMAIN choices : f[device] \in choices[device]}

\* the possible results, in tenths per device; {} when the function raises
calculate_snort_avg(snort_cpu_metrics) ==
    IF ~AllFloat(snort_cpu_metrics) THEN {}
    ELSE PerDevice([device \in DOMAIN snort_cpu_metrics |->
                        Round1(Average(cpu_values(snort_cpu_metrics[device])))])

calculate_snort_max(snort_cpu_metrics) ==
    IF ~AllFloat(snort_cpu_metrics) THEN {}
    ELSE PerDevice([device \in DOMAIN snort_cpu_metrics |->
                        Round1(Maximum(cpu_values(snort_cpu_metrics[device])))])

(***************************************************************************)
(* Upstream HTTP responses.  A response is a status and, for a 200, the    *)
(* body the client reads with resp.text.  A body is                        *)
(*   kind "empty"    : the empty string (falsy in "if resp:")              *)
(*   kind "not_json" : text json.loads rejects                             *)
(*   kind "json"     : a JSON object; a field that may be missing from it  *)
(*                     is Some(x) when present and None when missing.      *)
(***************************************************************************)
Resp(status, body) == [status |-> status, body |-> body]

NoBody == [kind |-> "empty"]

NotJson == [kind |-> "not_json"]

(***************************************************************************)
(* FirePower (fmc.py).  token counts the access tokens the client has been *)
(* given: authRequest stores the new token and rebuilds self.headers from  *)
(* it.  A call's script is what the platform answers to the requests the   *)
(* call may issue: first (the GET), auth (the status of the POST to        *)
(* generatetoken) and retry (the second GET).                              *)
(***************************************************************************)
Get(url, token) == [kind |-> "GET", url |-> url, token |-> token]

AuthPost == [kind |-> "POST", url |-> "auth/generatetoken", token |-> 0]

\* FirePower.authRequest: 204 stores the tokens, anything else sys.exit(-1)
authRequest(status, token) ==
    IF status = 204
    THEN [out |-> "return", token |-> token + 1]
    ELSE [out |-> "exit", token |-> token]

\* FirePower.getData: the text of a 200, None for any other final status
FirePower_getData(get_url, script, token) ==
    LET first == [resp |-> script.first, token |-> token,
                  events |-> <<Get(get_url, token)>>]
        auth  == authRequest(script.auth, token)
        final ==
            IF first.resp.status = 401
            THEN [resp |-> script.retry, token |-> auth.token,
                  events |-> first.events \o <<AuthPost, Get(get_url, auth.token)>>]
            ELSE first
    IN  IF first.resp.status = 401 /\ auth.out = "exit"
        THEN [out |-> "exit", text |-> None, token |-> auth.token,
              events |-> first.events \o <<AuthPost>>]
        ELSE [out |-> "return", token |-> final.token, events |-> final.events,
              text |-> IF final.resp.status = 200 THEN Some(final.resp.body) ELSE None]

\* the shared tail of getDeviceRecords and getHealthMetrics: json.loads the
\* text and return the 'items' array when it is there and not empty
FirePower_items(r) ==
    LET ret(out, value) ==
            [out |-> out, value |-> value, token |-> r.token, events |-> r.events]
    IN  IF r.out = "exit" THEN ret("exit", None)
        ELSE IF IsNone(r.text) \/ r.text.v.kind = "empty" THEN ret("return", None)
        ELSE IF r.text.v.kind = "not_json" THEN ret("raise", None)
        ELSE IF ~IsNone(r.text.v.items) /\ Len(r.text.v.items.v) > 0
             THEN ret("return", Some(r.text.v.items.v))
             ELSE ret("return", None)

DeviceRecordsUrl == [path |-> "devices/devicerecords", params |-> <<"expanded", 1000>>]

HealthMetricsUrl(time_period_seconds, device_uuid, metric, regex_filter) ==
    [path |-> "health/metrics",
     params |-> <<device_uuid, metric, time_period_seconds, regex_filter>>]

getDeviceRecords(script, token) ==
    FirePower_items(FirePower_getData(DeviceRecordsUrl, script, token))

getHealthMetrics(time_period_seconds, device_uuid, metric, regex_filter, script, token) ==
    FirePower_items(FirePower_getData(
        HealthMetricsUrl(time_period_seconds, device_uuid, metric, regex_filter),
        script, token))

(***************************************************************************)
(* ThousandEyes (thousandeyes.py).                                         *)
(***************************************************************************)
TeGet(url) == [kind |-> "GET", url |-> url]

\* ThousandEyes.getData: the text of a 200, None otherwise; no retry
ThousandEyes_getData(get_url, resp) ==
    [text |-> IF resp.status = 200 THEN Some(resp.body) ELSE None,
     events |-> <<TeGet(get_url)>>]

\* whether "if resp:" passes
Truthy(text) == ~IsNone(text) /\ text.v.kind # "empty"

\* ThousandEyes.getTestDetails: resp_json['test'][0] when 'test' is there
getTestDetails(test_id, resp) ==
    LET r == ThousandEyes_getData(<<"tests", test_id>>, resp)
        ret(out, value) == [out |-> out, value |-> value, events |-> r.events]
    IN  IF ~Truthy(r.text) THEN ret("return", None)
        ELSE IF r.text.v.kind = "not_json" THEN ret("raise", None)
        ELSE IF IsNone(r.text.v.test) THEN ret("return", None)
        ELSE IF Len(r.text.v.test.v) = 0 THEN ret("raise", None)
        ELSE ret("return", Some(r.text.v.test.v[1]))

\* the url of page i of a metrics chain: page 1 is net/metrics/{test_id}
\* with the window, page i+1 the pages.next cursor of page i
PageUrl(test_id, time_period, i) == <<"net/metrics", test_id, time_period, i>>

\* page i of a chain carries a next cursor when it has a 'pages' object and
\* is not the chain's last page
HasNext(chain, i) == chain[i].body.pages /\ i < Len(chain)

\* faulty variant: the loop stops after the first follow-up page
RECURSIVE PageLoopTwoPages(_, _, _, _, _, _)
PageLoopTwoPages(test_id, time_period, chain, i, metrics, events) ==
    LET body == chain[i].body
        more == IF IsNone(body.metrics) THEN metrics ELSE metrics \o body.metrics.v
    IN  IF HasNext(chain, i) /\ i < 2 /\ chain[i + 1].status = 200
             /\ chain[i + 1].body.kind = "json"
        THEN PageLoopTwoPages(test_id, time_period, chain, i + 1, more,
                      Append(events, TeGet(PageUrl(test_id, time_period, i + 1))))
        ELSE [out |-> "return", value |-> Some(more), events |-> events]

\* the while True loop of getTestData_NetworkE2E, entered with page i loaded
RECURSIVE PageLoop(_, _, _, _, _, _)
PageLoop(test_id, time_period, chain, i, metrics, events) ==
    LET body == chain[i].body
        more == IF IsNone(body.metrics) THEN metrics ELSE metrics \o body.metrics.v
    IN  IF ~body.pages
        THEN \* resp_json['pages'] raises KeyError
             [out |-> "raise", value |-> None, events |-> events]
        ELSE IF HasNext(chain, i)
        THEN LET r == ThousandEyes_getData(PageUrl(test_id, time_period, i + 1),
                                           chain[i + 1])
             IN  IF IsNone(r.text) \/ r.text.v.kind # "json"
                 THEN \* json.loads(None) raises TypeError, json.loads of
                      \* '' or of other text JSONDecodeError
                      [out |-> "raise", value |-> None, events |-> events \o r.events]
                 ELSE PageLoop(test_id, time_period, chain, i + 1, more,
                               events \o r.events)
        ELSE [out |-> "return", value |-> Some(more), events |-> events]

getTestData_NetworkE2E(test_id, time_period, chain) ==
    LET r == ThousandEyes_getData(PageUrl(test_id, time_period, 1), chain[1])
        ret(out, value) == [out |-> out, value |-> value, events |-> r.events]
    IN  IF ~Truthy(r.text) THEN ret("return", None)
        ELSE IF r.text.v.kind = "not_json" THEN ret("raise", None)
        ELSE IF ~IsNone(r.text.v.metrics)
             THEN PageLoop(test_id, time_period, chain, 1, <<>>, r.events)
             ELSE ret("return", None)

\* ThousandEyes.getTestID: a lookup in the index built at construction
getTestID(name_to_id, test_name) ==
    IF test_name \in DOMAIN name_to_id
    THEN Some(name_to_id[test_name])
    ELSE None

(***************************************************************************)
(* Python dict with string keys (a device record): a function from the     *)
(* keys present to their values.                                           *)
(***************************************************************************)
\* a key a JSON object does not have
Absent == [k |-> "absent"]

IsAbsent(x) == x.k = "absent"

\* faulty variant: the assignment is skipped when there is nothing to show
SetFieldUnlessNone(d, key, v) ==
    IF IsNone(v) THEN d ELSE [f \in DOMAIN d \cup {key} |-> IF f = key THEN v ELSE d[f]]

\* d[key] = v
SetField(d, key, v) ==
    [f \in DOMAIN d \cup {key} |-> IF f = key THEN v ELSE d[f]]

(***************************************************************************)
(* get_ftd_devices (app.py:86-117), the body under the memoize decorator.  *)
(* A raw device record is [id, name, metadata], each Absent when the key   *)
(* is missing; metadata, when present, is [snortVersion].  The fields      *)
(* hostName, performanceTier, sw_version and snortEngine are copied the    *)
(* way name is and are left out.                                           *)
(***************************************************************************)
\* whether the dict display for one record raises KeyError:
\* device['id'] and device['metadata'] are read unconditionally
CurateRaises(device) == IsAbsent(device.id) \/ IsAbsent(device.metadata)

Curate(device) ==
    [id           |-> device.id,
     name         |-> IF ~IsAbsent(device.name) THEN device.name ELSE None,
     snortVersion |-> IF ~IsAbsent(device.metadata.v.snortVersion)
                      THEN device.metadata.v.snortVersion ELSE None]

\* r is what fmc.getDeviceRecords() gave
get_ftd_devices_body(r) ==
    LET ret(out, value) ==
            [out |-> out, value |-> value, token |-> r.token, events |-> r.events]
    IN  IF r.out # "return" THEN ret(r.out, None)
        ELSE IF ~IsNone(r.value)
        THEN IF \E i \in 1..Len(r.value.v) : CurateRaises(r.value.v[i])
             THEN ret("raise", None)
             ELSE ret("return", Some([i \in 1..Len(r.value.v) |-> Curate(r.value.v[i])]))
        ELSE ret("return", None)

(***************************************************************************)
(* get_health_metrics (app.py:122-163), the body under the decorator.      *)
(* A health item is [deviceUUID, response]; response is Some(values), the  *)
(* series json.loads(...)['data']['result'][0]['values'] yields, or None   *)
(* when that expression raises.  scripts[i] is what the platform answers   *)
(* to the requests of the i-th getHealthMetrics call.                      *)
(***************************************************************************)
\* the first loop: one getHealthMetrics call per uuid, the first item of
\* each answer kept; stops at the first call that does not return
RECURSIVE HealthLoop(_, _, _, _, _, _)
HealthLoop(time_period_seconds, device_uuids, scripts, i, acc, st) ==
    IF i > Len(device_uuids) \/ st.out # "return"
    THEN [out |-> st.out, value |-> acc, token |-> st.token, events |-> st.events]
    ELSE LET r == getHealthMetrics(time_period_seconds, device_uuids[i], "cpu",
                                   "snort_avg", scripts[i], st.token)
         IN  HealthLoop(time_period_seconds, device_uuids, scripts, i + 1,
                        IF r.out = "return" /\ ~IsNone(r.value)
                        THEN Append(acc, r.value.v[1]) ELSE acc,
                        [out |-> r.out, token |-> r.token, events |-> st.events \o r.events])

\* the second loop: device uuid -> raw data, items whose response does not
\* parse logged and left out
RECURSIVE HealthMap(_, _)
HealthMap(health_metrics, acc) ==
    IF health_metrics = <<>> THEN acc
    ELSE LET health_metric == Head(health_metrics)
         IN  HealthMap(Tail(health_metrics),
                       IF ~IsNone(health_metric.response)
                       THEN [u \in DOMAIN acc \cup {health_metric.deviceUUID} |->
                                IF u = health_metric.deviceUUID
                                THEN health_metric.response.v ELSE acc[u]]
                       ELSE acc)

EmptyMap == [u \in {} |-> <<>>]

get_health_metrics_body(time_period_seconds, device_uuids, scripts, token) ==
    LET l == HealthLoop(time_period_seconds, device_uuids, scripts, 1, <<>>,
                        [out |-> "return", token |-> token, events |-> <<>>])
        ret(value) == [out |-> l.out, value |-> value, token |-> l.token, events |-> l.events]
    IN  IF l.out # "return" THEN ret(None)
        ELSE IF Len(l.value) > 0 THEN ret(Some(HealthMap(l.value, EmptyMap)))
        ELSE ret(None)

(***************************************************************************)
(* get_te_test_results (app.py:168-209), the body under the decorator.     *)
(* answers[i] is what the platform would answer for the i-th device:       *)
(* [details: a response, data: a chain of pages].                          *)
(***************************************************************************)
MapSet(m, key, v) == [u \in DOMAIN m \cup {key} |-> IF u = key THEN v ELSE m[u]]

\* one round of the loop over the devices; the round is recorded with the
\* number of requests it issued and how it ended
TeDevice(time_period_seconds, device, TE_TEST_MAPPING, name_to_id, answer, st) ==
    LET round(n, out) == [id |-> device.id, requests |-> n, out |-> out]
    IN  IF ~IsNone(device.name) /\ device.name.v \in DOMAIN TE_TEST_MAPPING
        THEN LET test_name == TE_TEST_MAPPING[device.name.v]
                 test_id   == getTestID(name_to_id, test_name)
             IN  IF ~IsNone(test_id)
                 THEN LET d  == getTestDetails(test_id.v, answer.details)
                          t  == getTestData_NetworkE2E(test_id.v, time_period_seconds,
                                                       answer.data)
                          dd == IF ~IsNone(d.value)
                                THEN MapSet(st.details, device.id, d.value.v)
                                ELSE st.details
                      IN  IF d.out # "return"
                          THEN [st EXCEPT !.out = d.out, !.events = @ \o d.events,
                                          !.rounds = Append(@, round(Len(d.events), d.out))]
                          ELSE [st EXCEPT
                                  !.out = t.out,
                                  !.events = @ \o d.events \o t.events,
                                  !.details = dd,
                                  !.results =
                                      IF t.out = "return" /\ ~IsNone(t.value)
                                           /\ Len(t.value.v) > 0
                                      THEN MapSet(@, device.id, t.value.v) ELSE @,
                                  !.rounds = Append(@, round(Len(d.events) + Len(t.events),
                                                             t.out))]
                 ELSE [st EXCEPT !.rounds = Append(@, round(0, "return"))]
        ELSE [st EXCEPT !.rounds = Append(@, round(0, "return"))]

\* faulty variant: the loop is left at the first device without a test
RECURSIVE TeLoopBreak(_, _, _, _, _, _, _)
TeLoopBreak(time_period_seconds, devices, TE_TEST_MAPPING, name_to_id, answers, i, st) ==
    IF i > Len(devices) \/ st.out # "return" THEN st
    ELSE LET next == TeDevice(time_period_seconds, devices[i], TE_TEST_MAPPING,
                              name_to_id, answers[i], st)
         IN  IF next.events = st.events THEN next
             ELSE TeLoopBreak(time_period_seconds, devices, TE_TEST_MAPPING,
                              name_to_id, answers, i + 1, next)

\* the loop over the devices, left when a round raises
RECURSIVE TeLoop(_, _, _, _, _, _, _)
TeLoop(time_period_seconds, devices, TE_TEST_MAPPING, name_to_id, answers, i, st) ==
    IF i > Len(devices) \/ st.out # "return" THEN st
    ELSE TeLoop(time_period_seconds, devices, TE_TEST_MAPPING, name_to_id, answers,
                i + 1,
                TeDevice(time_period_seconds, devices[i], TE_TEST_MAPPING,
                         name_to_id, answers[i], st))

get_te_test_results_body(time_period_seconds, devices, TE_TEST_MAPPING, name_to_id, answers) ==
    LET l == TeLoop(time_period_seconds, devices, TE_TEST_MAPPING, name_to_id,
                    answers, 1,
                    [out |-> "return", results |-> EmptyMap, details |-> EmptyMap,
                     events |-> <<>>, rounds |-> <<>>])
    IN  [out |-> l.out, events |-> l.events, rounds |-> l.rounds,
         value |-> IF l.out = "return"
                   THEN Some([te_results |-> l.results, te_test_details |-> l.details])
                   ELSE None]

(***************************************************************************)
(* convert_te_test_data (app.py:237-261) and calculate_te_avg              *)
(* (app.py:304-321).  A network metric is [date, avgLatency, loss,         *)
(* jitter], each Absent when the key is missing; date is the sequence of   *)
(* the whitespace-separated words of the date string, avgLatency a         *)
(* number.                                                                 *)
(***************************************************************************)
\* whether the body of the loop over one metric completes: data['date']
\* .split()[1] and the three latency fields must be there
TeSampleConverts(data) ==
    /\ ~IsAbsent(data.date) /\ Len(data.date.v) >= 2
    /\ ~IsAbsent(data.avgLatency) /\ ~IsAbsent(data.loss) /\ ~IsAbsent(data.jitter)

\* data['date'].split()[1][:-3]
TeLabel(data) == SubSeq(data.date.v[2], 1, Len(data.date.v[2]) - 3)

RECURSIVE ConvertTeSeries(_, _)
ConvertTeSeries(series, acc) ==
    IF series = <<>> THEN acc
    ELSE LET data == Head(series)
         IN  ConvertTeSeries(Tail(series),
                             IF TeSampleConverts(data)
                             THEN DictSet(acc, TeLabel(data),
                                          <<data.avgLatency.v, data.loss.v, data.jitter.v>>)
                             ELSE acc)

convert_te_test_data(raw_te_results) ==
    [device \in DOMAIN raw_te_results |-> ConvertTeSeries(raw_te_results[device], <<>>)]

latency_values(series) == [i \in 1..Len(series) |-> [num |-> series[i][2][1], den |-> 1]]

\* the possible results, in tenths per device
calculate_te_avg(te_results) ==
    PerDevice([device \in DOMAIN te_results |->
                    Round1(Average(latency_values(te_results[device])))])

(***************************************************************************)
(* The merge and the sort of index (app.py:370-415).                       *)
(***************************************************************************)
\* "m and key in m" followed by m[key], else None; m is Some(map) or None,
\* and an empty map is falsy
Lookup(m, key) ==
    IF ~IsNone(m) /\ DOMAIN m.v # {} /\ key \in DOMAIN m.v THEN Some(m.v[key]) ELSE None

\* the six assignments of one round of the loop over the devices
MergeDevice(device, raw_te_test_details, snort_cpu_metrics, snort_average, snort_max_24h, te_results, te_latency_average) ==
    LET d1 == SetField(device, "te_test_details", Lookup(raw_te_test_details, device.id))
        d2 == SetField(d1, "snort_cpu_data", Lookup(snort_cpu_metrics, device.id))
        d3 == SetField(d2, "snort_cpu_avg", Lookup(snort_average, device.id))
        d4 == SetField(d3, "snort_cpu_max", Lookup(snort_max_24h, device.id))
        d5 == SetField(d4, "te_test_data", Lookup(te_results, device.id))
    IN  SetField(d5, "te_latency_avg", Lookup(te_latency_average, device.id))

\* Python's order on str: by code point, a proper prefix first
CodePoint(c) ==
    CASE c = "A" -> 65 [] c = "B" -> 66 [] c = "a" -> 97 [] c = "b" -> 98

RECURSIVE StrLess(_, _)
StrLess(s, t) ==
    IF t = <<>> THEN FALSE
    ELSE IF s = <<>> THEN TRUE
    ELSE IF Head(s) = Head(t) THEN StrLess(Tail(s), Tail(t))
    ELSE CodePoint(Head(s)) < CodePoint(Head(t))

\* sorted() compares the keys with <: a None key among two or more raises
\* TypeError
SortRaises(devices) ==
    Len(devices) >= 2 /\ \E i \in 1..Len(devices) : IsNone(devices[i].name)

\* stable insertion: after every element whose key is not greater
InsertByName(sorted, device) ==
    LET before == {i \in 1..Len(sorted) : ~StrLess(device.name.v, sorted[i].name.v)}
        k      == IF before = {} THEN 0
                  ELSE CHOOSE i \in before : \A j \in before : j <= i
    IN  SubSeq(sorted, 1, k) \o <<device>> \o SubSeq(sorted, k + 1, Len(sorted))

\* sorted(devices, key=lambda device: device['name']), a stable sort
RECURSIVE SortedByName(_, _)
SortedByName(devices, acc) ==
    IF devices = <<>> THEN acc
    ELSE SortedByName(Tail(devices), InsertByName(acc, Head(devices)))

(***************************************************************************)
(* cache.memoize(timeout=T) of flask-caching over the 'simple' in-process  *)
(* store (app.py:37, 85, 120-121, 166-167).  The decorator is library      *)
(* code; what it does at a call of the decorated function f(args):         *)
(*   1. it reads f's version key from the store and, when the store has    *)
(*      none that is unexpired, writes a new random version with timeout   *)
(*      T; the version is part of every cache key of f, so the entries     *)
(*      made under an older version can never be read again;               *)
(*   2. rv = cache.get(key): the stored value when the entry is there and  *)
(*      its expiry is in the future, else None;                            *)
(*   3. rv None (cache_none is left at its default False) is a miss,       *)
(*      whether or not an entry holding None is there: f's body runs and,  *)
(*      when it returns, cache.set(key, rv, timeout=T) stores the result,  *)
(*      None included, with expiry now + T.                                *)
(* The store is fn -> [ver: the version's expiry (0: none written yet),    *)
(* entries: args -> [value, expires]].                                     *)
(***************************************************************************)
Fns == {"get_ftd_devices", "get_health_metrics", "get_te_test_results"}

NoEntries == [a \in {} |-> None]

EmptyCache == [fn \in Fns |-> [ver |-> 0, entries |-> NoEntries]]

\* timeout=300 on get_ftd_devices
DEVICES_TIMEOUT == 300

\* the 24-hour window of the second health lookup
DAY_SECONDS == 86400

Timeout(fn) == IF fn = "get_ftd_devices" THEN DEVICES_TIMEOUT ELSE TIME_PERIOD_SECONDS

\* step 1: the store after the version check
MemoEnter(c, fn) ==
    IF c[fn].ver > now THEN c
    ELSE [c EXCEPT ![fn] = [ver |-> now + Timeout(fn), entries |-> NoEntries]]

\* SimpleCache.get finds the entry: it is there and not expired
Fresh(c, fn, args) ==
    args \in DOMAIN c[fn].entries /\ c[fn].entries[args].expires > now

\* faulty variant: a stored None is served like any other value (cache_none)
MemoHitAnyValue(c, fn, args) == Fresh(c, fn, args)

\* steps 2 and 3: the call is answered from the store
MemoHit(c, fn, args) ==
    Fresh(c, fn, args) /\ ~IsNone(c[fn].entries[args].value)

\* cache.set(key, rv, timeout=T)
MemoStore(c, fn, args, rv) ==
    [c EXCEPT ![fn].entries = MapSet(@, args, [value |-> rv, expires |-> now + Timeout(fn)])]

\* the store after a call whose body ended with r
MemoLeave(c, fn, args, r) ==
    IF r.out = "return" THEN MemoStore(c, fn, args, r.value) ELSE c

NoCall == [fn |-> "none"]

\* the record of a memoized call: had is the entry the store held for the
\* arguments when the call was made, if unexpired; ver whether f's version
\* was then unexpired; hit whether the call was answered from the store
MemoRecord(fn, args, hit, r) ==
    [fn |-> fn, args |-> args, hit |-> hit, out |-> r.out, value |-> r.value,
     requests |-> Len(r.events),
     had |-> IF Fresh(cache, fn, args) THEN Some(cache[fn].entries[args].value) ELSE None,
     ver |-> cache[fn].ver > now]

(***************************************************************************)
(* Configuration (config_sample.py) and the index of the constructed       *)
(* network-test client: device "a" has a test that exists, device "B" a    *)
(* test that is not in the index, device "ab" no mapping.                  *)
(***************************************************************************)
TE_TEST_MAPPING == (<<"a">> :> "t1") @@ (<<"B">> :> "t2")

TestIndex == ("t1" :> 11)

(***************************************************************************)
(* Each run exercises one part of the program; the state of the parts it   *)
(* does not exercise stays as below.                                       *)
(***************************************************************************)
CvIdle ==
    /\ cv_pc = "off"
    /\ cv_raw = None
    /\ cv_out = None
    /\ cv_avg = None

ClIdle ==
    /\ cl_pc = "off"
    /\ cl_call = [op |-> "none"]
    /\ cl_ret = [out |-> "none"]

ThIdle == parked = None

\* the page pipeline is not running
IxOff ==
    /\ ThIdle
    /\ TIME_PERIOD_SECONDS = 3600
    /\ pc = "off"
    /\ served = 0
    /\ now = 0
    /\ cache = EmptyCache
    /\ memo = NoCall
    /\ log = <<>>
    /\ calls = <<>>
    /\ rounds = <<>>
    /\ fetched = None
    /\ ix_devices = None
    /\ ix_snort_cpu_metrics = None
    /\ ix_snort_average = None
    /\ ix_snort_max_24h = None
    /\ ix_raw_te = None
    /\ ix_te_results = None
    /\ ix_te_latency_average = None
    /\ page = None

IxIdle ==
    /\ test_name_to_id = TestIndex
    /\ IxOff

(***************************************************************************)
(* What the platforms answer.  A menu names the answers a run draws from:  *)
(* deviceScripts for the device-records call, healthKinds for each         *)
(* health-metrics call of the rolling window and health24Kinds for each of *)
(* the 24-hour window, teKinds for the calls made for one device's test,  *)
(* geo for the time-and-location lookup of the render step.                *)
(***************************************************************************)
JsonItems(items) == [kind |-> "json", items |-> Some(items)]

FmcOk(items) ==
    [first |-> Resp(200, JsonItems(items)), auth |-> 204, retry |-> Resp(200, JsonItems(items))]

FmcErr == [first |-> Resp(500, NoBody), auth |-> 204, retry |-> Resp(500, NoBody)]

FmcExit == [first |-> Resp(401, NoBody), auth |-> 401, retry |-> Resp(401, NoBody)]

FmcRetryOk(items) ==
    [first |-> Resp(401, NoBody), auth |-> 204, retry |-> Resp(200, JsonItems(items))]

\* the health-metrics answers, by kind, for the device uuid asked about
HealthScript(kind, uuid) ==
    CASE kind.k = "err"  -> FmcErr
      [] kind.k = "exit" -> FmcExit
      [] kind.k = "bad"  -> FmcOk(<<[deviceUUID |-> uuid, response |-> None]>>)
      [] kind.k = "ok"   -> FmcOk(<<[deviceUUID |-> uuid, response |-> Some(kind.series)]>>)

HealthOk(series) == [k |-> "ok", series |-> series]

\* two samples in the minute 00:01
SeriesCollide == <<Pair(65, <<"3", ".", "5">>), Pair(70, <<"4", ".", "1">>)>>

\* a value float() rejects
SeriesNotNumber == <<Pair(65, <<"x">>)>>

\* two samples in different minutes, the greater value last
SeriesTwoMinutes == <<Pair(65, <<"3", ".", "5">>), Pair(130, <<"4", ".", "1">>)>>

\* the network metrics of the checked chains
TeMetric(i, j) ==
    [date       |-> Some(<<<<"2", "3", "-", "1", "1", "-", "1", "4">>,
                          <<"2", "2", ":", "1", DigitChars[i + 1], ":", DigitChars[j + 1], "0">>>>),
     avgLatency |-> Some(10 * i + j),
     loss       |-> Some(0),
     jitter     |-> Some(1)]

\* a network metric without its date
TeMetricNoDate == [date |-> Absent, avgLatency |-> Some(7), loss |-> Some(0), jitter |-> Some(1)]

TePage(metrics) == Resp(200, [kind |-> "json", metrics |-> Some(metrics), pages |-> TRUE])

TeDetailsOk == Resp(200, [kind |-> "json", test |-> Some(<<"details">>)])

TeDetailsEmpty == Resp(200, [kind |-> "json", test |-> Some(<<>>)])

TeTwoPages == <<TePage(<<TeMetric(1, 1)>>), TePage(<<TeMetric(2, 1), TeMetric(2, 2)>>)>>

TeBrokenChain == <<TePage(<<TeMetric(1, 1)>>), Resp(500, NoBody)>>

TeAnswer(details, data) == [details |-> details, data |-> data]

(***************************************************************************)
(* index (app.py:326-419), one action per memoized lookup with the         *)
(* processing that follows it, then the merge and sort, then the render.   *)
(***************************************************************************)
Ended(out) == IF out = "exit" THEN "exited" ELSE "raised"

\* faulty variant: the lookups that follow are made whatever the device
\* lookup gave, an absent list standing for no devices
AfterDevicesAlways(devices) == "health"

\* "if devices:" - the lookups that follow are made only for a device list
AfterDevices(devices) ==
    IF ~IsNone(devices) /\ Len(devices.v) > 0 THEN "health" ELSE "render"

\* a memoized call of the request: how it was answered and what it asked
CallRecord(fn, args, hit, r) ==
    [fn |-> fn, args |-> args, hit |-> hit, out |-> r.out, value |-> r.value,
     events |-> r.events]

\* "if x:" on a value that is None or a dict
TruthyMap(m) == ~IsNone(m) /\ DOMAIN m.v # {}

FromStore(c, fn, args) ==
    [out |-> "return", value |-> c[fn].entries[args].value, token |-> fmc_token,
     events |-> <<>>, rounds |-> <<>>]

\* devices = get_ftd_devices(): the ways the memoized call can go
DevicesOutcomes(M) ==
    LET c == MemoEnter(cache, "get_ftd_devices")
    IN  IF MemoHit(c, "get_ftd_devices", <<>>)
        THEN {[r |-> FromStore(c, "get_ftd_devices", <<>>), cache |-> c, hit |-> TRUE]}
        ELSE {LET r == get_ftd_devices_body(getDeviceRecords(script, fmc_token))
              IN  [r |-> r, cache |-> MemoLeave(c, "get_ftd_devices", <<>>, r), hit |-> FALSE] :
                script \in M.deviceScripts}

\* a page request arrives: the baseline values, then the device list
IndexDevices(M, limit) ==
    /\ pc \in {"idle", "rendered", "raised", "raised_geo"}
    /\ served < limit
    /\ served' = served + 1
    /\ \E o \in DevicesOutcomes(M) :
        /\ cache' = o.cache
        /\ memo' = MemoRecord("get_ftd_devices", <<>>, o.hit, o.r)
        /\ log' = o.r.events
        /\ calls' = <<CallRecord("get_ftd_devices", <<>>, o.hit, o.r)>>
        /\ fmc_token' = o.r.token
        /\ fetched' = o.r.value
        /\ ix_devices' = o.r.value
        /\ pc' = IF o.r.out # "return" THEN Ended(o.r.out) ELSE AfterDevices(o.r.value)
    /\ ix_snort_cpu_metrics' = None
    /\ ix_snort_average' = None
    /\ ix_snort_max_24h' = None
    /\ ix_raw_te' = None
    /\ ix_te_results' = None
    /\ ix_te_latency_average' = None
    /\ rounds' = <<>>
    /\ page' = None
    /\ UNCHANGED <<th_vars, cv_vars, cl_vars, test_name_to_id, TIME_PERIOD_SECONDS, now>>

\* device_uuids = [device['id'] for device in devices if device['id']]
device_uuids(devs) ==
    LET keep == {i \in 1..Len(devs) : ~IsNone(devs[i].id)}
        F[i \in 0..Len(devs)] ==
            IF i = 0 THEN <<>> ELSE IF i \in keep THEN Append(F[i - 1], devs[i].id) ELSE F[i - 1]
    IN  F[Len(devs)]

\* faulty variant: every health lookup asks for the configured window
HealthArgsConfigured(period) ==
    <<TIME_PERIOD_SECONDS, device_uuids(ix_devices.v), "cpu", "snort_avg">>

HealthArgs(period) == <<period, device_uuids(ix_devices.v), "cpu", "snort_avg">>

\* get_health_metrics(period, device_uuids, 'cpu', 'snort_avg')
HealthOutcomes(menu, period) ==
    LET c     == MemoEnter(cache, "get_health_metrics")
        args  == HealthArgs(period)
        uuids == args[2]
    IN  IF MemoHit(c, "get_health_metrics", args)
        THEN {[r |-> FromStore(c, "get_health_metrics", args), cache |-> c, hit |-> TRUE]}
        ELSE {LET r == get_health_metrics_body(
                            period, uuids,
                            [i \in 1..Len(uuids) |-> HealthScript(kinds[i], uuids[i])],
                            fmc_token)
              IN  [r |-> r, cache |-> MemoLeave(c, "get_health_metrics", args, r),
                   hit |-> FALSE] :
                kinds \in [1..Len(uuids) -> menu]}

\* what a memoized lookup leaves behind, whatever it was
Looked(fn, args, o) ==
    /\ cache' = o.cache
    /\ memo' = MemoRecord(fn, args, o.hit, o.r)
    /\ log' = log \o o.r.events
    /\ calls' = Append(calls, CallRecord(fn, args, o.hit, o.r))
    /\ UNCHANGED <<th_vars, cv_vars, cl_vars, test_name_to_id, TIME_PERIOD_SECONDS, now, served,
                   fetched, page, ix_devices>>

\* the rolling-window lookup, the conversion and the average
IndexHealth(M) ==
    /\ pc = "health"
    /\ \E o \in HealthOutcomes(M.healthKinds, TIME_PERIOD_SECONDS) :
        /\ Looked("get_health_metrics", HealthArgs(TIME_PERIOD_SECONDS), o)
        /\ fmc_token' = o.r.token
        /\ IF o.r.out # "return"
           THEN /\ pc' = Ended(o.r.out)
                /\ UNCHANGED <<ix_snort_cpu_metrics, ix_snort_average>>
           ELSE IF TruthyMap(o.r.value)
           THEN LET metrics == convert_snort_metric_data(o.r.value.v)
                IN  /\ ix_snort_cpu_metrics' = Some(metrics)
                    /\ IF calculate_snort_avg(metrics) = {}
                       THEN pc' = "raised" /\ UNCHANGED ix_snort_average
                       ELSE /\ pc' = "health24"
                            /\ \E avg \in calculate_snort_avg(metrics) :
                                ix_snort_average' = Some(avg)
           ELSE /\ pc' = "health24"
                /\ UNCHANGED <<ix_snort_cpu_metrics, ix_snort_average>>
    /\ UNCHANGED <<ix_snort_max_24h, ix_raw_te, ix_te_results, ix_te_latency_average, rounds>>

\* the 24-hour lookup, the conversion and the maximum
IndexHealth24h(M) ==
    /\ pc = "health24"
    /\ \E o \in HealthOutcomes(M.health24Kinds, DAY_SECONDS) :
        /\ Looked("get_health_metrics", HealthArgs(DAY_SECONDS), o)
        /\ fmc_token' = o.r.token
        /\ IF o.r.out # "return"
           THEN pc' = Ended(o.r.out) /\ UNCHANGED ix_snort_max_24h
           ELSE IF TruthyMap(o.r.value)
           THEN LET metrics == convert_snort_metric_data(o.r.value.v)
                IN  IF calculate_snort_max(metrics) = {}
                    THEN pc' = "raised" /\ UNCHANGED ix_snort_max_24h
                    ELSE /\ pc' = "te"
                         /\ \E max \in calculate_snort_max(metrics) :
                                ix_snort_max_24h' = Some(max)
           ELSE pc' = "te" /\ UNCHANGED ix_snort_max_24h
    /\ UNCHANGED <<ix_snort_cpu_metrics, ix_snort_average, ix_raw_te, ix_te_results,
                   ix_te_latency_average, rounds>>

\* the devices for which get_te_test_results asks the platform
HasTest(device) ==
    /\ ~IsNone(device.name)
    /\ device.name.v \in DOMAIN TE_TEST_MAPPING
    /\ ~IsNone(getTestID(test_name_to_id, TE_TEST_MAPPING[device.name.v]))

TeArgs == <<TIME_PERIOD_SECONDS, ix_devices.v>>

\* get_te_test_results(int(config.TIME_PERIOD_SECONDS), devices)
TeOutcomes(M) ==
    LET c     == MemoEnter(cache, "get_te_test_results")
        devs  == ix_devices.v
        asked == {i \in 1..Len(devs) : HasTest(devs[i])}
    IN  IF MemoHit(c, "get_te_test_results", TeArgs)
        THEN {[r |-> FromStore(c, "get_te_test_results", TeArgs), cache |-> c, hit |-> TRUE]}
        ELSE {LET r == get_te_test_results_body(
                            TIME_PERIOD_SECONDS, devs, TE_TEST_MAPPING, test_name_to_id,
                            [i \in 1..Len(devs) |->
                                IF i \in asked THEN kinds[i]
                                ELSE TeAnswer(Resp(500, NoBody), <<Resp(500, NoBody)>>)])
              IN  [r |-> r,
                   cache |-> MemoLeave(c, "get_te_test_results", TeArgs, r),
                   hit |-> FALSE] :
                kinds \in [asked -> M.teKinds]}

\* the test lookup, the conversion and the latency average
IndexTeResults(M) ==
    /\ pc = "te"
    /\ \E o \in TeOutcomes(M) :
        /\ Looked("get_te_test_results", TeArgs, o)
        /\ rounds' = o.r.rounds
        /\ IF o.r.out # "return"
           THEN /\ pc' = Ended(o.r.out)
                /\ UNCHANGED <<ix_raw_te, ix_te_results, ix_te_latency_average>>
           ELSE LET converted == convert_te_test_data(o.r.value.v.te_results)
                IN  /\ ix_raw_te' = o.r.value
                    /\ ix_te_results' = Some(converted)
                    /\ \E avg \in calculate_te_avg(converted) :
                        ix_te_latency_average' = Some(avg)
                    /\ pc' = "merge"
    /\ UNCHANGED <<fmc_token, ix_snort_cpu_metrics, ix_snort_average, ix_snort_max_24h>>

\* the loop that appends the metrics to the devices, then the sort
IndexMerge ==
    /\ pc = "merge"
    /\ LET merged == [i \in 1..Len(ix_devices.v) |->
                        MergeDevice(ix_devices.v[i],
                                    Some(ix_raw_te.v.te_test_details),
                                    ix_snort_cpu_metrics, ix_snort_average,
                                    ix_snort_max_24h, ix_te_results,
                                    ix_te_latency_average)]
       IN  IF SortRaises(merged)
           THEN pc' = "raised" /\ ix_devices' = Some(merged)
           ELSE pc' = "render" /\ ix_devices' = Some(SortedByName(merged, <<>>))
    /\ UNCHANGED <<th_vars, cv_vars, cl_vars, fmc_token, test_name_to_id, TIME_PERIOD_SECONDS, served,
                   now, cache, memo, log, calls, rounds, fetched, page, ix_snort_cpu_metrics,
                   ix_snort_average, ix_snort_max_24h, ix_raw_te, ix_te_results,
                   ix_te_latency_average>>

\* render_template(..., timeAndLocation=getSystemTimeAndLocation(),
\* devices=devices, ...): the lookup of the time and location asks a third
\* service and raises when that fails
IndexRender(M) ==
    /\ pc = "render"
    /\ \E geo \in M.geo :
        IF geo = "ok"
        THEN pc' = "rendered" /\ page' = [devices |-> ix_devices]
        ELSE pc' = "raised_geo" /\ UNCHANGED page
    /\ UNCHANGED <<th_vars, cv_vars, cl_vars, fmc_token, test_name_to_id, TIME_PERIOD_SECONDS, served,
                   now, cache, memo, log, calls, rounds, fetched, ix_locals>>

\* time passes between two page requests
Tick(delta) ==
    /\ pc \in {"rendered", "raised", "raised_geo"}
    /\ served < MaxRequests
    /\ now + delta <= MaxClock
    /\ now' = now + delta
    /\ UNCHANGED <<th_vars, cv_vars, cl_vars, fmc_token, test_name_to_id, TIME_PERIOD_SECONDS, pc,
                   served, cache, memo, log, calls, rounds, fetched, ix_locals, page>>

(***************************************************************************)
(* The page run: the application has been constructed (the clients are     *)
(* authenticated, the test index is built, the cache is empty) and one     *)
(* page request is served, the platforms answering every request in any    *)
(* of the ways of FullMenu.                                                *)
(***************************************************************************)
\* the id of the i-th device of a list: the ids of a list are distinct
DeviceId(i) == <<"d", DigitChars[i + 1]>>

\* the first record's id may also be null
IdChoices(i) ==
    {Some(DeviceId(i)), Absent} \cup (IF i = 1 THEN {None} ELSE {})

\* no name, a name with a test that exists, a name whose test is not in
\* the index, a name without a mapping
NameChoices == {Absent, Some(<<"a">>), Some(<<"B">>), Some(<<"a", "b">>)}

MetadataChoices == {Absent, Some([snortVersion |-> Some("3")])}

RawDevices(i) ==
    {[id |-> d, name |-> n, metadata |-> m] :
        d \in IdChoices(i), n \in NameChoices, m \in MetadataChoices}

RECURSIVE RawListsOf(_)
RawListsOf(k) ==
    IF k = 0 THEN {<<>>}
    ELSE {Append(l, d) : l \in RawListsOf(k - 1), d \in RawDevices(k)}

RawLists == UNION {RawListsOf(k) : k \in 1..MaxDevices}

FullMenu ==
    [deviceScripts |-> {FmcErr, FmcExit} \cup {FmcOk(l) : l \in RawLists}
                            \cup {FmcRetryOk(l) : l \in RawListsOf(1)},
     healthKinds   |-> {[k |-> "err"], [k |-> "exit"], [k |-> "bad"],
                        HealthOk(<<>>), HealthOk(SeriesCollide), HealthOk(SeriesNotNumber)},
     health24Kinds |-> {[k |-> "err"], [k |-> "exit"], HealthOk(SeriesTwoMinutes)},
     teKinds       |-> {TeAnswer(d, c) :
                            d \in {Resp(500, NoBody), TeDetailsOk, TeDetailsEmpty},
                            c \in {<<Resp(500, NoBody)>>, TeTwoPages, TeBrokenChain}},
     geo           |-> {"ok", "fails"}]

\* the application is constructed and no page request has arrived
IxInit ==
    /\ pc = "idle"
    /\ TIME_PERIOD_SECONDS \in {3600, DAY_SECONDS}
    /\ test_name_to_id = TestIndex
    /\ fmc_token = 1
    /\ served = 0
    /\ now = 0
    /\ cache = EmptyCache
    /\ memo = NoCall
    /\ log = <<>>
    /\ calls = <<>>
    /\ rounds = <<>>
    /\ fetched = None
    /\ ix_devices = None
    /\ ix_snort_cpu_metrics = None
    /\ ix_snort_average = None
    /\ ix_snort_max_24h = None
    /\ ix_raw_te = None
    /\ ix_te_results = None
    /\ ix_te_latency_average = None
    /\ page = None
    /\ CvIdle
    /\ ClIdle

Init ==
    /\ IxInit
    /\ ThIdle

Next ==
    \/ IndexDevices(FullMenu, 1)
    \/ IndexHealth(FullMenu)
    \/ IndexHealth24h(FullMenu)
    \/ IndexTeResults(FullMenu)
    \/ IndexMerge
    \/ IndexRender(FullMenu)

Spec == Init /\ [][Next]_vars

(***************************************************************************)
(* The cache run: page requests follow one another while time passes       *)
(* between them, the platforms answering in the ways of CacheMenu.         *)
(***************************************************************************)
CacheList == <<[id |-> Some(DeviceId(1)), name |-> Some(<<"a">>),
                metadata |-> Some([snortVersion |-> Some("3")])]>>

CacheMenu ==
    [deviceScripts |-> {FmcErr, FmcOk(CacheList)},
     healthKinds   |-> {[k |-> "err"], HealthOk(SeriesCollide)},
     health24Kinds |-> {[k |-> "err"], HealthOk(SeriesTwoMinutes)},
     teKinds       |-> {TeAnswer(TeDetailsOk, TeTwoPages)},
     geo           |-> {"ok"}]

\* the steps of the clock: half the device-list timeout, and the rest of
\* the configured window
TickDeltas == {DEVICES_TIMEOUT \div 2, 3600 - DEVICES_TIMEOUT}

CacheInit ==
    /\ Init
    /\ TIME_PERIOD_SECONDS = 3600

CacheNext ==
    \/ IndexDevices(CacheMenu, MaxRequests)
    \/ IndexHealth(CacheMenu)
    \/ IndexHealth24h(CacheMenu)
    \/ IndexTeResults(CacheMenu)
    \/ IndexMerge
    \/ IndexRender(CacheMenu)
    \/ \E delta \in TickDeltas : Tick(delta)

SpecCache == CacheInit /\ [][CacheNext]_vars

(***************************************************************************)
(* The series run: one page request for devices that all have a test, the  *)
(* platforms answering with series that are empty, that hold malformed     *)
(* records only, that hold a value float() rejects, or that hold data.     *)
(***************************************************************************)
RECURSIVE SeriesListsOf(_)
SeriesListsOf(k) ==
    IF k = 0 THEN <<>>
    ELSE Append(SeriesListsOf(k - 1),
                [id |-> Some(DeviceId(k)), name |-> Some(<<"a">>),
                 metadata |-> Some([snortVersion |-> Some("3")])])

SeriesKinds ==
    {[k |-> "err"], HealthOk(<<>>), HealthOk(<<BadTs(<<"3", ".", "5">>)>>),
     HealthOk(SeriesNotNumber), HealthOk(SeriesTwoMinutes)}

SeriesMenu ==
    [deviceScripts |-> {FmcOk(SeriesListsOf(k)) : k \in 1..MaxDevices},
     healthKinds   |-> SeriesKinds,
     health24Kinds |-> SeriesKinds,
     teKinds       |-> {TeAnswer(TeDetailsOk, <<TePage(<<TeMetricNoDate>>)>>),
                        TeAnswer(TeDetailsOk, TeTwoPages)},
     geo           |-> {"ok"}]

SeriesInit ==
    /\ Init
    /\ TIME_PERIOD_SECONDS = 3600

SeriesNext ==
    \/ IndexDevices(SeriesMenu, 1)
    \/ IndexHealth(SeriesMenu)
    \/ IndexHealth24h(SeriesMenu)
    \/ IndexTeResults(SeriesMenu)
    \/ IndexMerge
    \/ IndexRender(SeriesMenu)

SpecSeries == SeriesInit /\ [][SeriesNext]_vars

(***************************************************************************)
(* The windows run: one page request under either configured window, the   *)
(* device lookup giving a list or nothing, each health lookup giving data  *)
(* or nothing for each device.                                             *)
(***************************************************************************)
WindowsMenu ==
    [deviceScripts |-> {FmcErr, FmcRetryOk(SeriesListsOf(1))}
                            \cup {FmcOk(SeriesListsOf(k)) : k \in 1..MaxDevices},
     healthKinds   |-> {[k |-> "err"], [k |-> "bad"], HealthOk(<<>>),
                        HealthOk(SeriesCollide), HealthOk(SeriesNotNumber)},
     health24Kinds |-> {[k |-> "err"], HealthOk(SeriesTwoMinutes)},
     teKinds       |-> {TeAnswer(Resp(500, NoBody), <<Resp(500, NoBody)>>),
                        TeAnswer(TeDetailsOk, TeTwoPages)},
     geo           |-> {"ok", "fails"}]

WindowsNext ==
    \/ IndexDevices(WindowsMenu, 1)
    \/ IndexHealth(WindowsMenu)
    \/ IndexHealth24h(WindowsMenu)
    \/ IndexTeResults(WindowsMenu)
    \/ IndexMerge
    \/ IndexRender(WindowsMenu)

SpecWindows == Init /\ [][WindowsNext]_vars

(***************************************************************************)
(* The concurrent run: the server handles page requests in threads of one  *)
(* process.  Two requests are in progress; one of them runs, the other is  *)
(* parked with its position and its locals, and the interpreter may switch *)
(* between them after any step.  The clients, the test index, the          *)
(* configuration and the result cache belong to the process and are not    *)
(* part of a request's context.  The memoized device lookup is taken in    *)
(* two steps, the look in the store and the body with the store after it,  *)
(* so that both requests can miss before either stores.                    *)
(***************************************************************************)
\* what belongs to the running request
Context ==
    [pc |-> pc, memo |-> memo, log |-> log, calls |-> calls, rounds |-> rounds,
     fetched |-> fetched, page |-> page, devices |-> ix_devices,
     snort_cpu_metrics |-> ix_snort_cpu_metrics, snort_average |-> ix_snort_average,
     snort_max_24h |-> ix_snort_max_24h, raw_te |-> ix_raw_te,
     te_results |-> ix_te_results, te_latency_average |-> ix_te_latency_average]

\* a request that has not arrived yet
IdleContext ==
    [pc |-> "idle", memo |-> NoCall, log |-> <<>>, calls |-> <<>>, rounds |-> <<>>,
     fetched |-> None, page |-> None, devices |-> None,
     snort_cpu_metrics |-> None, snort_average |-> None, snort_max_24h |-> None,
     raw_te |-> None, te_results |-> None, te_latency_average |-> None]

\* the interpreter switches to the other request
Switch ==
    /\ parked # Context
    /\ parked' = Context
    /\ pc' = parked.pc
    /\ memo' = parked.memo
    /\ log' = parked.log
    /\ calls' = parked.calls
    /\ rounds' = parked.rounds
    /\ fetched' = parked.fetched
    /\ page' = parked.page
    /\ ix_devices' = parked.devices
    /\ ix_snort_cpu_metrics' = parked.snort_cpu_metrics
    /\ ix_snort_average' = parked.snort_average
    /\ ix_snort_max_24h' = parked.snort_max_24h
    /\ ix_raw_te' = parked.raw_te
    /\ ix_te_results' = parked.te_results
    /\ ix_te_latency_average' = parked.te_latency_average
    /\ UNCHANGED <<cv_vars, cl_vars, fmc_token, test_name_to_id, TIME_PERIOD_SECONDS,
                   served, now, cache>>

\* a page request arrives and get_ftd_devices looks in the store: a stored
\* list is returned, otherwise the body is entered
ThLook(M, limit) ==
    IF MemoHit(MemoEnter(cache, "get_ftd_devices"), "get_ftd_devices", <<>>)
    THEN IndexDevices(M, limit)
    ELSE /\ pc \in {"idle", "rendered", "raised", "raised_geo"}
         /\ served < limit
         /\ served' = served + 1
         /\ cache' = MemoEnter(cache, "get_ftd_devices")
         /\ pc' = "devices"
         /\ memo' = NoCall
         /\ log' = <<>>
         /\ calls' = <<>>
         /\ rounds' = <<>>
         /\ fetched' = None
         /\ page' = None
         /\ ix_devices' = None
         /\ ix_snort_cpu_metrics' = None
         /\ ix_snort_average' = None
         /\ ix_snort_max_24h' = None
         /\ ix_raw_te' = None
         /\ ix_te_results' = None
         /\ ix_te_latency_average' = None
         /\ UNCHANGED <<th_vars, cv_vars, cl_vars, fmc_token, test_name_to_id,
                        TIME_PERIOD_SECONDS, now>>

\* the body of get_ftd_devices and the store of its result
ThDevices(M) ==
    /\ pc = "devices"
    /\ \E script \in M.deviceScripts :
        LET r == get_ftd_devices_body(getDeviceRecords(script, fmc_token))
        IN  /\ cache' = MemoLeave(MemoEnter(cache, "get_ftd_devices"),
                                  "get_ftd_devices", <<>>, r)
            /\ memo' = MemoRecord("get_ftd_devices", <<>>, FALSE, r)
            /\ log' = r.events
            /\ calls' = <<CallRecord("get_ftd_devices", <<>>, FALSE, r)>>
            /\ fmc_token' = r.token
            /\ fetched' = r.value
            /\ ix_devices' = r.value
            /\ pc' = IF r.out # "return" THEN Ended(r.out) ELSE AfterDevices(r.value)
    /\ UNCHANGED <<th_vars, cv_vars, cl_vars, test_name_to_id, TIME_PERIOD_SECONDS, served,
                   now, rounds, page, ix_snort_cpu_metrics, ix_snort_average,
                   ix_snort_max_24h, ix_raw_te, ix_te_results, ix_te_latency_average>>

\* the access token may have expired when a request asks for the devices
ThreadsMenu ==
    [deviceScripts |-> {FmcOk(CacheList), FmcRetryOk(CacheList)},
     healthKinds   |-> {[k |-> "err"], HealthOk(SeriesCollide)},
     health24Kinds |-> {[k |-> "err"], HealthOk(SeriesTwoMinutes)},
     teKinds       |-> {TeAnswer(TeDetailsOk, TeTwoPages)},
     geo           |-> {"ok"}]

ThInit ==
    /\ IxInit
    /\ TIME_PERIOD_SECONDS = 3600
    /\ parked = IdleContext

ThNext ==
    \/ ThLook(ThreadsMenu, MaxRequests)
    \/ ThDevices(ThreadsMenu)
    \/ IndexHealth(ThreadsMenu)
    \/ IndexHealth24h(ThreadsMenu)
    \/ IndexTeResults(ThreadsMenu)
    \/ IndexMerge
    \/ IndexRender(ThreadsMenu)
    \/ Switch

SpecThreads == ThInit /\ [][ThNext]_vars

(***************************************************************************)
(* ThousandEyes.__init__ and __getTestList (thousandeyes.py:39-82).        *)
(* A test of the fetched list is [testName, testId, savedEvent];           *)
(* savedEvent is Some(n) or Absent (test['savedEvent'] raises KeyError).   *)
(***************************************************************************)
\* faulty variant: every test of the list is indexed
SavedEventAny(test) == TRUE

\* test['savedEvent'] == 0
SavedEventIsZero(test) == test.savedEvent.v = 0

\* the loop over resp_json['test'], the index so far in acc
RECURSIVE TestListLoop(_, _)
TestListLoop(tests, acc) ==
    IF tests = <<>> THEN [out |-> "return", index |-> acc]
    ELSE LET test == Head(tests)
         IN  IF IsAbsent(test.savedEvent) THEN [out |-> "raise", index |-> acc]
             ELSE TestListLoop(Tail(tests),
                               IF SavedEventIsZero(test)
                               THEN MapSet(acc, test.testName, test.testId)
                               ELSE acc)

\* self.test_name_to_id = {}
EmptyIndex == [name \in {} |-> 0]

TestsUrl == <<"tests">>

\* __getTestList: the index it leaves, and whether it returns, raises or
\* calls sys.exit(-1)
getTestList(resp) ==
    LET r == ThousandEyes_getData(TestsUrl, resp)
        ret(out, index) == [out |-> out, index |-> index, events |-> r.events]
    IN  IF ~Truthy(r.text) THEN ret("exit", EmptyIndex)
        ELSE IF r.text.v.kind = "not_json" THEN ret("raise", EmptyIndex)
        ELSE IF ~IsNone(r.text.v.test) /\ Len(r.text.v.test.v) > 0
             THEN LET l == TestListLoop(r.text.v.test.v, EmptyIndex)
                  IN  ret(l.out, l.index)
             ELSE ret("exit", EmptyIndex)

(***************************************************************************)
(* The construction run: the network-test client is constructed against a  *)
(* platform that answers the request for the test list in any of the ways  *)
(* of TestListResps; test ids are then looked up by name.                  *)
(***************************************************************************)
TestNames == {"t1", "t2"}

TestIds == {11, 12}

Tests ==
    [testName : TestNames, testId : TestIds, savedEvent : {Some(0), Some(1), Absent}]

TestLists == UNION {[1..k -> Tests] : k \in 0..MaxLen}

TestListResps ==
    {Resp(500, NoBody), Resp(200, NoBody), Resp(200, NotJson),
     Resp(200, [kind |-> "json", test |-> None])}
        \cup {Resp(200, [kind |-> "json", test |-> Some(tests)]) : tests \in TestLists}

TcInit ==
    /\ cl_pc = "constructing"
    /\ cl_call = [op |-> "none"]
    /\ cl_ret = [out |-> "none", op |-> "none"]
    /\ fmc_token = 1
    /\ test_name_to_id = EmptyIndex
    /\ CvIdle
    /\ IxOff

\* te = ThousandEyes(logger)
TcConstruct ==
    /\ cl_pc = "constructing"
    /\ \E resp \in TestListResps :
        LET r == getTestList(resp)
        IN  /\ cl_call' = [op |-> "__init__", resp |-> resp]
            /\ cl_ret' = [out |-> r.out, op |-> "__init__"]
            /\ test_name_to_id' = r.index
            /\ log' = r.events
            /\ cl_pc' = CASE r.out = "return" -> "constructed"
                          [] r.out = "raise"  -> "raised"
                          [] r.out = "exit"   -> "exited"
    /\ UNCHANGED <<th_vars, cv_vars, fmc_token, TIME_PERIOD_SECONDS, pc, served, now, cache, memo,
                   calls, rounds, fetched, ix_locals, page>>

\* te.getTestID(test_name)
TcGetTestID ==
    /\ cl_pc = "constructed"
    /\ \E test_name \in TestNames \cup {"t3"} :
        cl_ret' = [out |-> "return", op |-> "getTestID", test_name |-> test_name,
                   value |-> getTestID(test_name_to_id, test_name)]
    /\ UNCHANGED <<th_vars, cv_vars, cl_pc, cl_call, fmc_token, ix_vars>>

TcNext == TcConstruct \/ TcGetTestID

SpecTests == TcInit /\ [][TcNext]_vars

(***************************************************************************)
(* The normalisation run: the two steps index applies to the raw metrics   *)
(* of one lookup (app.py:345-350), on its own.                             *)
(***************************************************************************)
\* timestamps of the checked series: two in the minute 00:01, one a day
\* later with the same label, one in 00:02, and the two of the documented
\* scenario
SampleTimes == {65, 70, 130, 86465, 1700000000, 1700000060}

\* "3.5", "4.1", "4" and a string float() rejects
SampleValues == {<<"3", ".", "5">>, <<"4", ".", "1">>, <<"4">>, <<"x">>}

Samples ==
    {Pair(t, v) : t \in SampleTimes, v \in SampleValues}
        \cup {BadTs(<<"3", ".", "5">>), Short(65)}

RawMetricInputs ==
    LET series == SeqsUpTo(Samples, MaxLen)
        second == {<<>>, <<Pair(65, <<"3", ".", "5">>)>>}
    IN  {("d1" :> s) : s \in series}
            \cup {("d1" :> s) @@ ("d2" :> t) : s \in series, t \in second}

CvInit ==
    /\ cv_pc = "start"
    /\ cv_raw \in RawMetricInputs
    /\ cv_out = None
    /\ cv_avg = None
    /\ ClIdle
    /\ IxIdle
    /\ fmc_token = 1

\* snort_cpu_metrics = convert_snort_metric_data(raw_snort_cpu_metrics)
CvConvert ==
    /\ cv_pc = "start"
    /\ cv_out' = convert_snort_metric_data(cv_raw)
    /\ cv_pc' = "converted"
    /\ UNCHANGED <<cv_raw, cv_avg>>
    /\ UNCHANGED <<th_vars, cl_vars, fmc_token, ix_vars>>

\* snort_average = calculate_snort_avg(snort_cpu_metrics)
CvAverage ==
    /\ cv_pc = "converted"
    /\ \E avg \in calculate_snort_avg(cv_out) :
        /\ cv_avg' = avg
        /\ cv_pc' = "done"
    /\ UNCHANGED <<cv_raw, cv_out>>
    /\ UNCHANGED <<th_vars, cl_vars, fmc_token, ix_vars>>

\* float() raised ValueError inside calculate_snort_avg
CvAverageRaises ==
    /\ cv_pc = "converted"
    /\ calculate_snort_avg(cv_out) = {}
    /\ cv_pc' = "raised"
    /\ UNCHANGED <<cv_raw, cv_out, cv_avg>>
    /\ UNCHANGED <<th_vars, cl_vars, fmc_token, ix_vars>>

CvNext == CvConvert \/ CvAverage \/ CvAverageRaises

SpecConvert == CvInit /\ [][CvNext]_vars

(***************************************************************************)
(* Vocabulary of the claims about the normalisation.                       *)
(***************************************************************************)
\* positions of the samples of a series that bear a label
Bearing(series, label) ==
    {i \in 1..Len(series) : SampleConverts(series[i]) /\ UtcLabel(series[i].ts) = label}

LabelsOf(series) ==
    {UtcLabel(series[i].ts) : i \in {j \in 1..Len(series) : SampleConverts(series[j])}}

\* the value of the last sample, in list order, bearing the label
LastInOrder(series, label) ==
    LET I == Bearing(series, label)
    IN  series[CHOOSE i \in I : \A j \in I : j <= i].val

\* the value of the chronologically last sample bearing the label (of two
\* samples with the same timestamp, the later in the list)
LastChronological(series, label) ==
    LET I == Bearing(series, label)
    IN  series[CHOOSE i \in I :
                 \A j \in I : \/ series[j].ts < series[i].ts
                              \/ series[j].ts = series[i].ts /\ j <= i].val

\* the well-formed samples come in non-decreasing timestamp order
TimeOrdered(series) ==
    \A i, j \in 1..Len(series) :
        (i < j /\ SampleConverts(series[i]) /\ SampleConverts(series[j]))
            => series[i].ts <= series[j].ts

OneEntryPerLabel(series, dict) ==
    /\ Len(dict) = Cardinality(DictKeys(dict))
    /\ DictKeys(dict) = LabelsOf(series)

ScenarioRaw ==
    "d1" :> <<Pair(1700000000, <<"3", ".", "5">>), Pair(1700000060, <<"4", ".", "1">>)>>

Label1226 == <<"1", "2", ":", "2", "6">>

Label2213 == <<"2", "2", ":", "1", "3">>

Label2214 == <<"2", "2", ":", "1", "4">>

\* C6, as stated: both samples bear the label 12:26, the normalised series
\* is {"12:26": "4.1"} and the average is 4.1.
C6_ScenarioAsStated ==
    (cv_raw = ScenarioRaw /\ cv_pc = "done") =>
        /\ \A i \in 1..2 : UtcLabel(cv_raw["d1"][i].ts) = Label1226
        /\ cv_out["d1"] = <<<<Label1226, <<"4", ".", "1">>>>>>
        /\ cv_avg["d1"] = 41

\* C6, amended: the samples bear the distinct labels 22:13 and 22:14, the
\* normalised series is {"22:13": "3.5", "22:14": "4.1"} and the average
\* is 3.8.
C6_ScenarioAsComputed ==
    (cv_raw = ScenarioRaw /\ cv_pc = "done") =>
        /\ UtcLabel(cv_raw["d1"][1].ts) = Label2213
        /\ UtcLabel(cv_raw["d1"][2].ts) = Label2214
        /\ cv_out["d1"] = <<<<Label2213, <<"3", ".", "5">>>>, <<Label2214, <<"4", ".", "1">>>>>>
        /\ cv_avg["d1"] = 38

C6_Witness == cv_raw = ScenarioRaw /\ cv_pc = "done"

(***************************************************************************)
(* The client run: one operation of one of the two constructed clients is  *)
(* called, the platform answering each of its requests with any status     *)
(* and body.                                                               *)
(***************************************************************************)
\* the 'items' arrays of the checked FMC bodies
FmcItemLists == {<<"item1">>, <<"item1", "item2">>}

FmcBodies ==
    {NoBody, NotJson}
        \cup {[kind |-> "json", items |-> i] :
                i \in {None, Some(<<>>)} \cup {Some(l) : l \in FmcItemLists}}

FmcResps == {Resp(401, NoBody), Resp(500, NoBody)} \cup {Resp(200, b) : b \in FmcBodies}

\* the answers to a call's requests; the answers to requests the call does
\* not issue are fixed
FmcScripts ==
    {[first |-> f, auth |-> 204, retry |-> f] : f \in FmcResps \ {Resp(401, NoBody)}}
        \cup {[first |-> Resp(401, NoBody), auth |-> 401, retry |-> Resp(401, NoBody)]}
        \cup {[first |-> Resp(401, NoBody), auth |-> 204, retry |-> r] : r \in FmcResps}

TeDetailBodies ==
    {NoBody, NotJson}
        \cup {[kind |-> "json", test |-> t] : t \in {None, Some(<<>>), Some(<<"details">>)}}

TeDetailResps == {Resp(500, NoBody)} \cup {Resp(200, b) : b \in TeDetailBodies}

\* the bodies page i of a chain may have: net.metrics missing, empty, or
\* holding one or two metrics; the 'pages' object there or missing
PageBodies(i) ==
    {[kind |-> "json", metrics |-> m, pages |-> p] :
        m \in {None, Some(<<>>), Some(<<TeMetric(i, 1)>>),
               Some(<<TeMetric(i, 1), TeMetric(i, 2)>>)},
        p \in BOOLEAN}

PageResps(i) ==
    {Resp(500, NoBody), Resp(200, NotJson)} \cup {Resp(200, b) : b \in PageBodies(i)}

RECURSIVE ChainsOf(_)
ChainsOf(k) ==
    IF k = 0 THEN {<<>>}
    ELSE {Append(c, p) : c \in ChainsOf(k - 1), p \in PageResps(k)}

PageChains == UNION {ChainsOf(k) : k \in 1..MaxPages}

ClInit ==
    /\ cl_pc = "idle"
    /\ cl_call = [op |-> "none"]
    /\ cl_ret = [out |-> "none"]
    /\ fmc_token = 1
    /\ CvIdle
    /\ IxIdle

\* what a call leaves behind
ClReturn(call, ret) ==
    /\ cl_call' = call
    /\ cl_ret' = ret
    /\ cl_pc' = CASE ret.out = "return" -> "returned"
                 [] ret.out = "raise"  -> "raised"
                 [] ret.out = "exit"   -> "exited"
    /\ UNCHANGED <<th_vars, cv_vars, ix_vars>>

ClGetDeviceRecords ==
    /\ cl_pc = "idle"
    /\ \E script \in FmcScripts :
        LET ret == getDeviceRecords(script, fmc_token)
        IN  /\ ClReturn([op |-> "getDeviceRecords", url |-> DeviceRecordsUrl,
                         script |-> script, token |-> fmc_token], ret)
            /\ fmc_token' = ret.token

ClGetHealthMetrics ==
    /\ cl_pc = "idle"
    /\ \E script \in FmcScripts, period \in {3600, 86400} :
        LET ret == getHealthMetrics(period, "d1", "cpu", "snort_avg", script, fmc_token)
        IN  /\ ClReturn([op |-> "getHealthMetrics",
                         url |-> HealthMetricsUrl(period, "d1", "cpu", "snort_avg"),
                         script |-> script, token |-> fmc_token], ret)
            /\ fmc_token' = ret.token

ClGetTestDetails ==
    /\ cl_pc = "idle"
    /\ \E resp \in TeDetailResps :
        ClReturn([op |-> "getTestDetails", resp |-> resp], getTestDetails(11, resp))
    /\ UNCHANGED fmc_token

ClGetTestData ==
    /\ cl_pc = "idle"
    /\ \E chain \in PageChains :
        ClReturn([op |-> "getTestData_NetworkE2E", chain |-> chain],
                 getTestData_NetworkE2E(11, 3600, chain))
    /\ UNCHANGED fmc_token

ClNext == ClGetDeviceRecords \/ ClGetHealthMetrics \/ ClGetTestDetails \/ ClGetTestData

SpecClients == ClInit /\ [][ClNext]_vars

(***************************************************************************)
(* Vocabulary of the claims about the clients.                             *)
(***************************************************************************)
FmcOps == {"getDeviceRecords", "getHealthMetrics"}

\* the platform answered every request of the last call with a status and,
\* for a 200, a JSON body (whatever fields it has)
JsonOrError(resp) == resp.status = 200 => resp.body.kind = "json"

AnswersAreStatusOrJson ==
    CASE cl_call.op \in FmcOps ->
            JsonOrError(cl_call.script.first) /\ JsonOrError(cl_call.script.retry)
      [] cl_call.op = "getTestDetails" -> JsonOrError(cl_call.resp)
      [] cl_call.op = "getTestData_NetworkE2E" ->
            \A i \in 1..Len(cl_call.chain) : JsonOrError(cl_call.chain[i])
      [] OTHER -> FALSE

\* C2: every client operation returns data or None, whatever status or JSON
\* body the platform answers with at any of its requests; none raises and
\* none terminates the process.
C2_ClientsNeverRaiseOrExit ==
    AnswersAreStatusOrJson => (cl_ret.out = "return" /\ cl_pc = "returned")

\* C3: in FirePower.getData a 401 on the first request is followed by
\* exactly one re-authentication and then exactly one retry of the same
\* url and parameters, whose 401 gives None with nothing further; any other
\* first status gives no re-authentication and no retry.
C3_OneReauthOneRetry ==
    cl_call.op \in FmcOps =>
        IF cl_call.script.first.status = 401
        THEN /\ Len(cl_ret.events) = 3
             /\ cl_ret.events[1] = Get(cl_call.url, cl_call.token)
             /\ cl_ret.events[2] = AuthPost
             /\ cl_ret.events[3].kind = "GET"
             /\ cl_ret.events[3].url = cl_call.url
             /\ cl_call.script.retry.status = 401 =>
                    (cl_ret.out = "return" /\ IsNone(cl_ret.value))
        ELSE cl_ret.events = <<Get(cl_call.url, cl_call.token)>>

\* the last call fetched a chain of pages every one of which was served
\* (200, JSON, with its 'pages' object)
ServedChain ==
    /\ cl_call.op = "getTestData_NetworkE2E"
    /\ \A i \in 1..Len(cl_call.chain) :
        /\ cl_call.chain[i].status = 200
        /\ cl_call.chain[i].body.kind = "json"
        /\ cl_call.chain[i].body.pages

RECURSIVE ConcatMetrics(_, _)
ConcatMetrics(chain, i) ==
    IF i > Len(chain) THEN <<>>
    ELSE (IF IsNone(chain[i].body.metrics) THEN <<>> ELSE chain[i].body.metrics.v)
            \o ConcatMetrics(chain, i + 1)

\* C4: for a served chain of k pages whose first page has net.metrics, the
\* call requests page 1 .. page k once each, in order, and returns the
\* concatenation of the pages' net.metrics arrays in page order; it returns
\* None exactly when the first page has no net.metrics.
C4_PagesConcatenated ==
    ServedChain =>
        /\ cl_ret.out = "return"
        /\ IsNone(cl_ret.value) <=> IsNone(cl_call.chain[1].body.metrics)
        /\ ~IsNone(cl_call.chain[1].body.metrics) =>
            /\ cl_ret.events = [i \in 1..Len(cl_call.chain) |-> TeGet(PageUrl(11, 3600, i))]
            /\ cl_ret.value = Some(ConcatMetrics(cl_call.chain, 1))

\* a served chain of three pages, each with metrics, returned whole
C4_Witness ==
    /\ ServedChain
    /\ Len(cl_call.chain) = 3
    /\ \A i \in 1..3 : ~IsNone(cl_call.chain[i].body.metrics)
                        /\ Len(cl_call.chain[i].body.metrics.v) > 0
    /\ Len(cl_ret.value.v) >= 3

(***************************************************************************)
(* Vocabulary of the claims about the page run.                            *)
(***************************************************************************)
DerivedFields ==
    {"te_test_details", "snort_cpu_data", "snort_cpu_avg", "snort_cpu_max", "te_test_data",
     "te_latency_avg"}

\* the fields get_ftd_devices gives a device
Fetched(device) == [f \in DOMAIN device \ DerivedFields |-> device[f]]

\* the merge loop has run over the device list of this request
MergeDone ==
    /\ pc \in {"render", "rendered", "raised", "raised_geo"}
    /\ ~IsNone(ix_devices)
    /\ \A i \in 1..Len(ix_devices.v) : DerivedFields \subseteq DOMAIN ix_devices.v[i]

\* a page with a device list has been returned
Rendered == pc = "rendered" /\ ~IsNone(page.devices)

\* out holds exactly the devices of in
SameDevices(out, in) ==
    /\ Len(out) = Len(in)
    /\ \E p \in [1..Len(out) -> 1..Len(out)] :
        /\ \A i, j \in 1..Len(out) : p[i] = p[j] => i = j
        /\ \A i \in 1..Len(out) : Fetched(out[i]) = in[p[i]]

\* names ascending in Python's order on str
NameOrdered(out) ==
    \A i, j \in 1..Len(out) :
        i < j => /\ ~IsNone(out[i].name) /\ ~IsNone(out[j].name)
                 /\ ~StrLess(out[j].name.v, out[i].name.v)

\* the pipeline's data of one kind, a mapping by device id or None
HasData(m, id) == ~IsNone(m) /\ id \in DOMAIN m.v

DataOf(field) ==
    CASE field = "te_test_details" -> Some(ix_raw_te.v.te_test_details)
      [] field = "snort_cpu_data"  -> ix_snort_cpu_metrics
      [] field = "snort_cpu_avg"   -> ix_snort_average
      [] field = "snort_cpu_max"   -> ix_snort_max_24h
      [] field = "te_test_data"    -> ix_te_results
      [] field = "te_latency_avg"  -> ix_te_latency_average

\* the device's name has no entry in TE_TEST_MAPPING
Unmapped(device) == IsNone(device.name) \/ device.name.v \notin DOMAIN TE_TEST_MAPPING

\* the device's name has an entry whose test name getTestID does not find
Unresolved(device) ==
    /\ ~Unmapped(device)
    /\ TE_TEST_MAPPING[device.name.v] \notin DOMAIN test_name_to_id

\* C1: whatever the platforms answer during a page request, index reaches
\* the render step and returns a page; it never raises and never
\* terminates the process.
C1_PageAlwaysRendered == pc \notin {"raised", "exited"}

\* C7: for every fetched device list, once the derived fields are merged the
\* list is handed on holding exactly the fetched devices, ordered by name
\* ascending.
C7_SortedByName ==
    MergeDone =>
        /\ pc # "raised"
        /\ SameDevices(ix_devices.v, fetched.v)
        /\ NameOrdered(ix_devices.v)

\* C8: in every rendered device list every device carries the six derived
\* fields, and a field is null exactly when the pipeline has no data of
\* that kind for the device's id; otherwise it holds that data.
C8_DerivedFieldsPresent ==
    Rendered =>
        \A i \in 1..Len(page.devices.v) :
            LET device == page.devices.v[i]
            IN  /\ DerivedFields \subseteq DOMAIN device
                /\ \A field \in DerivedFields :
                    IF HasData(DataOf(field), device.id)
                    THEN device[field] = Some(DataOf(field).v[device.id])
                    ELSE device[field] = None

\* a rendered list with a device that has an id and all six fields null
\* next to a device with all six fields filled
C8_Witness ==
    /\ Rendered
    /\ \E i, j \in 1..Len(page.devices.v) :
        /\ ~IsNone(page.devices.v[i].id)
        /\ \A field \in DerivedFields : IsNone(page.devices.v[i][field])
        /\ \A field \in DerivedFields : ~IsNone(page.devices.v[j][field])

\* C9: a device without a mapping, or whose mapped test name is not in the
\* test index, has no request issued for it, does not end the loop over the
\* devices (the round of the next device follows), and is rendered with
\* te_test_details and te_test_data null.
C9_UnresolvedSkipped ==
    /\ \A i \in 1..Len(rounds) :
        LET device == fetched.v[i]
        IN  /\ rounds[i].id = device.id
            /\ (Unmapped(device) \/ Unresolved(device)) =>
                /\ rounds[i].requests = 0
                /\ rounds[i].out = "return"
                /\ i < Len(fetched.v) => Len(rounds) > i
    /\ Rendered =>
        \A i \in 1..Len(page.devices.v) :
            LET device == page.devices.v[i]
            IN  (Unmapped(device) \/ Unresolved(device)) =>
                    /\ device.te_test_details = None
                    /\ device.te_test_data = None

\* a rendered list of two: the first fetched device unresolved and skipped,
\* the second asked about and rendered with its test data
C9_Witness ==
    /\ Rendered
    /\ Len(rounds) = 2
    /\ Unresolved(fetched.v[1])
    /\ rounds[1].requests = 0
    /\ rounds[2].requests >= 3
    /\ \E i \in 1..2 : ~IsNone(page.devices.v[i].te_test_data)
    /\ \E i \in 1..2 : /\ Unresolved(page.devices.v[i])
                       /\ IsNone(page.devices.v[i].te_test_data)

(***************************************************************************)
(* Vocabulary of the claims about the cache run.  memo is the record of    *)
(* the last call of a memoized function.                                   *)
(***************************************************************************)
Called == memo.fn # "none"

\* when the call was made the store held an unexpired entry for its
\* arguments
HadEntry == ~IsNone(memo.had)

\* the body ran: the call asked the platforms (get_ftd_devices always
\* issues a request; the others may have nothing to ask about)
Recomputed == ~memo.hit /\ (memo.fn = "get_ftd_devices" => memo.requests > 0)

\* the call returned the stored result and issued no request
ServedFromStore == memo.hit /\ memo.requests = 0 /\ memo.value = memo.had.v

WellFormed(data) == SampleConverts(data) /\ IsFloatString(data.val)

\* C11: a malformed record of a raw series (a bad timestamp, a non-numeric
\* value) is skipped on its own: the normalisation and the summary never
\* abort, and every well-formed record of every device keeps its entry in
\* the normalized series the statistics are computed over.
C11_MalformedSkipped ==
    /\ cv_pc # "raised"
    /\ cv_pc = "done" =>
        \A device \in DOMAIN cv_raw :
            /\ device \in DOMAIN cv_avg
            /\ \A i \in 1..Len(cv_raw[device]) :
                WellFormed(cv_raw[device][i]) =>
                    DictHas(cv_out[device], UtcLabel(cv_raw[device][i].ts))

\* the pipeline's series of one kind for the device is there and empty
EmptySeries(m, id) == HasData(m, id) /\ m.v[id] = <<>>

\* the normalized series of the 24-hour lookup (snort_cpu_metrics_24h)
Normalized24h ==
    IF Len(calls) >= 3 /\ calls[3].out = "return" /\ TruthyMap(calls[3].value)
    THEN Some(convert_snort_metric_data(calls[3].value.v))
    ELSE None

\* the k-th lookup of the request returned a series with a value float()
\* rejects
NonNumericIn(k) ==
    /\ Len(calls) >= k
    /\ calls[k].out = "return"
    /\ TruthyMap(calls[k].value)
    /\ \E device \in DOMAIN calls[k].value.v :
        \E i \in 1..Len(calls[k].value.v[device]) :
            /\ SampleConverts(calls[k].value.v[device][i])
            /\ ~IsFloatString(calls[k].value.v[device][i].val)

\* C12: for every device whose normalized series is empty the average, the
\* maximum and the latency average are 0; an empty series makes nothing
\* raise (a request raises only over a value that is no number); the
\* rendered record carries that 0, not null.
C12_EmptySeriesGivesZero ==
    /\ pc = "raised" => NonNumericIn(2) \/ NonNumericIn(3)
    /\ Rendered =>
        \A i \in 1..Len(page.devices.v) :
            LET device == page.devices.v[i]
            IN  /\ EmptySeries(ix_snort_cpu_metrics, device.id) =>
                        device.snort_cpu_avg = Some(0)
                /\ EmptySeries(Normalized24h, device.id) => device.snort_cpu_max = Some(0)
                /\ EmptySeries(ix_te_results, device.id) => device.te_latency_avg = Some(0)

\* a rendered device whose three series are all empty and whose three
\* statistics are all 0
C12_Witness ==
    /\ Rendered
    /\ \E i \in 1..Len(page.devices.v) :
        LET device == page.devices.v[i]
        IN  /\ EmptySeries(ix_snort_cpu_metrics, device.id)
            /\ EmptySeries(Normalized24h, device.id)
            /\ EmptySeries(ix_te_results, device.id)
            /\ device.snort_cpu_avg = Some(0)
            /\ device.snort_cpu_max = Some(0)
            /\ device.te_latency_avg = Some(0)

\* the memoized lookups of a page request, in the order of index, each with
\* the window it is called with (the device lookup takes none)
LookupOrder ==
    <<[fn |-> "get_ftd_devices", window |-> None],
      [fn |-> "get_health_metrics", window |-> Some(TIME_PERIOD_SECONDS)],
      [fn |-> "get_health_metrics", window |-> Some(DAY_SECONDS)],
      [fn |-> "get_te_test_results", window |-> Some(TIME_PERIOD_SECONDS)]>>

WindowOf(call) == IF call.args = <<>> THEN None ELSE Some(call.args[1])

\* the requests the first k lookups of the request issued, in order
RECURSIVE IssuedBy(_)
IssuedBy(k) == IF k = 0 THEN <<>> ELSE IssuedBy(k - 1) \o calls[k].events

\* the device lookup of the request returned no device list
DevicesAbsent ==
    /\ Len(calls) >= 1
    /\ calls[1].out = "return"
    /\ IsNone(calls[1].value)

\* how many lookups a request at this point of index has made
LookupsAt(at) ==
    CASE at = "health" -> {1}
      [] at = "health24" -> {2}
      [] at = "te" -> {3}
      [] at = "merge" -> {4}
      [] at = "idle" -> {0}
      [] OTHER -> 1..4

\* C13: the lookups of a request are made in the order device list, rolling
\* window, 24 hours, test results, and the requests they issue go out in
\* that order; when the device lookup returns no list, no other lookup is
\* made and the page is rendered with devices = None.
C13_LookupsInOrder ==
    /\ Len(calls) \in LookupsAt(pc)
    /\ \A k \in 1..Len(calls) :
        /\ calls[k].fn = LookupOrder[k].fn
        /\ WindowOf(calls[k]) = LookupOrder[k].window
    /\ log = IssuedBy(Len(calls))
    /\ Rendered => Len(calls) = 4
    /\ DevicesAbsent =>
        /\ Len(calls) = 1
        /\ pc \in {"render", "rendered", "raised_geo"}
        /\ pc = "rendered" => page.devices = None

\* a rendered page whose request made the four lookups, each of them asking
\* the platforms
C13_Witness ==
    /\ Rendered
    /\ Len(calls) = 4
    /\ \A k \in 1..4 : ~calls[k].hit /\ calls[k].events # <<>>

\* the normalized series of the rolling-window lookup (snort_cpu_metrics)
NormalizedRolling ==
    IF Len(calls) >= 2 /\ calls[2].out = "return" /\ TruthyMap(calls[2].value)
    THEN Some(convert_snort_metric_data(calls[2].value.v))
    ELSE None

\* the value of a device field: the statistic of the device's series when
\* the lookup gave one, None otherwise
StatisticFrom(m, id, value, Statistic(_)) ==
    IF HasData(m, id)
    THEN ~IsNone(value) /\ value.v \in Round1(Statistic(cpu_values(m.v[id])))
    ELSE IsNone(value)

FetchedTests == cl_call.resp.body.test.v

\* the positions of the fetched tests with savedEvent == 0 and this name
SavedAs(test_name) ==
    {i \in 1..Len(FetchedTests) :
        /\ FetchedTests[i].savedEvent = Some(0)
        /\ FetchedTests[i].testName = test_name}

LastOf(positions) == CHOOSE i \in positions : \A j \in positions : j <= i

\* the platform answered the request for the test list with no test
ZeroTests ==
    /\ cl_call.op = "__init__"
    /\ cl_call.resp.status = 200
    /\ cl_call.resp.body.kind = "json"
    /\ cl_call.resp.body.test = Some(<<>>)

\* C15: once the client is constructed, and after any lookups by name, the
\* index has an entry exactly for the names with a test whose savedEvent is
\* 0, holding the id of the last such test of the list; the request for the
\* list is the only request issued; a lookup returns the entry or None; an
\* answer with zero tests ends the process.
C15_IndexOfSavedTests ==
    /\ cl_pc = "constructed" =>
        /\ DOMAIN test_name_to_id = {name \in TestNames : SavedAs(name) # {}}
        /\ \A name \in DOMAIN test_name_to_id :
            test_name_to_id[name] = FetchedTests[LastOf(SavedAs(name))].testId
        /\ log = <<TeGet(TestsUrl)>>
        /\ cl_ret.op = "getTestID" =>
            cl_ret.value = IF SavedAs(cl_ret.test_name) # {}
                           THEN Some(FetchedTests[LastOf(SavedAs(cl_ret.test_name))].testId)
                           ELSE None
    /\ ZeroTests => cl_pc = "exited"

\* after a lookup, the index holds for a name the id of the second of two
\* tests with savedEvent == 0, the first having another id
C15_Witness ==
    /\ cl_pc = "constructed"
    /\ cl_ret.op = "getTestID"
    /\ \E name \in TestNames :
        /\ Cardinality(SavedAs(name)) = 2
        /\ \E i \in SavedAs(name) : FetchedTests[i].testId # test_name_to_id[name]

\* how the requests in progress stand
Positions == {pc, parked.pc}

\* C16: with page requests running concurrently, no step of a request
\* changes the device client's token, the test index or the configuration
\* (the result cache is the only shared state a request writes), and no
\* request ends otherwise than with a page.
C16_OnlyCacheShared ==
    /\ [][/\ fmc_token' = fmc_token
          /\ test_name_to_id' = test_name_to_id
          /\ TIME_PERIOD_SECONDS' = TIME_PERIOD_SECONDS]_vars
    /\ [](Positions \cap {"raised", "exited"} = {})

=============================================================================
